---- MODULE Spec2Model ----
(***************************************************************************)
(* NodeModal (src/features/modals/NodeModal/index.tsx): the pure helpers   *)
(* normalizeNodeData, jsonPathToString and updateJsonAtPath, and the edit  *)
(* session held in the component's React state.                            *)
(*                                                                         *)
(* JSON values are tagged records:                                         *)
(*   [t |-> "num", inf |-> 0, n |-> i]   a finite number (an integer)      *)
(*   [t |-> "num", inf |-> 1 or -1, ..]  Infinity / -Infinity              *)
(*   [t |-> "bool", b |-> TRUE]          [t |-> "null"]                    *)
(*   [t |-> "str", s |-> <<chars>>]      a string, as its characters       *)
(*   [t |-> "obj", f |-> [key |-> value]]  [t |-> "arr", e |-> <<...>>]    *)
(*   [t |-> "undef"]                     JavaScript's undefined            *)
(* String VALUES are sequences of one-character strings, so that Number()  *)
(* and String() are computed; property KEYS are TLA+ strings.              *)
(***************************************************************************)
EXTENDS Integers, Sequences, FiniteSets, TLC

(* ------------------------------ values -------------------------------- *)

Num(i) == [t |-> "num", inf |-> 0, n |-> i]

Infinity(sign) == [t |-> "num", inf |-> sign, n |-> 0]

Bool(b) == [t |-> "bool", b |-> b]

Null == [t |-> "null"]

Undefined == [t |-> "undef"]

Str(s) == [t |-> "str", s |-> s]

Obj(f) == [t |-> "obj", f |-> f]

Arr(e) == [t |-> "arr", e |-> e]

EmptyMap == [k \in {} |-> <<>>]

(* ------------------------------ strings ------------------------------- *)

sTrue == <<"t", "r", "u", "e">>

sFalse == <<"f", "a", "l", "s", "e">>

sNull == <<"n", "u", "l", "l">>

sInfinity == <<"I", "n", "f", "i", "n", "i", "t", "y">>

Digits == {"0", "1", "2", "3", "4", "5", "6", "7", "8", "9"}

DigitVal ==
  [c \in Digits |->
     CASE c = "0" -> 0 [] c = "1" -> 1 [] c = "2" -> 2 [] c = "3" -> 3
       [] c = "4" -> 4 [] c = "5" -> 5 [] c = "6" -> 6 [] c = "7" -> 7
       [] c = "8" -> 8 [] c = "9" -> 9]

DigitChar == <<"0", "1", "2", "3", "4", "5", "6", "7", "8", "9">>

RECURSIVE TrimLeft(_)
TrimLeft(s) == IF s # <<>> /\ Head(s) = " " THEN TrimLeft(Tail(s)) ELSE s

RECURSIVE TrimRight(_)
TrimRight(s) ==
  IF s # <<>> /\ s[Len(s)] = " " THEN TrimRight(SubSeq(s, 1, Len(s) - 1)) ELSE s

RECURSIVE DigitsValue(_)
DigitsValue(s) ==
  IF s = <<>> THEN 0
  ELSE 10 * DigitsValue(SubSeq(s, 1, Len(s) - 1)) + DigitVal[s[Len(s)]]

NaN == [nan |-> TRUE, inf |-> 0, n |-> 0]

\* The magnitude of a trimmed, unsigned numeric literal: Infinity or a run
\* of decimal digits.  (Fractions, exponents and radix prefixes use
\* characters outside the modelled alphabet.)
Unsigned(s) ==
  IF s = sInfinity THEN [nan |-> FALSE, inf |-> 1, n |-> 0]
  ELSE IF s # <<>> /\ \A i \in 1..Len(s) : s[i] \in Digits
       THEN [nan |-> FALSE, inf |-> 0, n |-> DigitsValue(s)]
       ELSE NaN

\* JavaScript's Number(string): white space is trimmed, the empty string is
\* 0, an optional sign precedes the literal, anything else is NaN.
Number(s) ==
  LET u == TrimRight(TrimLeft(s)) IN
  IF u = <<>> THEN [nan |-> FALSE, inf |-> 0, n |-> 0]
  ELSE IF Head(u) \in {"-", "+"}
       THEN LET m == Unsigned(Tail(u)) IN
            IF Head(u) = "-" /\ ~m.nan
            THEN [nan |-> FALSE, inf |-> -m.inf, n |-> -m.n]
            ELSE m
       ELSE Unsigned(u)

isNaN(r) == r.nan

NumValue(r) == [t |-> "num", inf |-> r.inf, n |-> r.n]

RECURSIVE NatToChars(_)
NatToChars(n) ==
  IF n < 10 THEN <<DigitChar[n + 1]>>
  ELSE NatToChars(n \div 10) \o <<DigitChar[(n % 10) + 1]>>

\* JavaScript's String(value) of a scalar.
String(v) ==
  CASE v.t = "str" -> v.s
    [] v.t = "num" ->
         IF v.inf = 1 THEN sInfinity
         ELSE IF v.inf = -1 THEN <<"-">> \o sInfinity
         ELSE IF v.n < 0 THEN <<"-">> \o NatToChars(-v.n)
         ELSE NatToChars(v.n)
    [] v.t = "bool" -> IF v.b THEN sTrue ELSE sFalse
    [] v.t = "null" -> sNull
    [] OTHER -> <<"u", "n", "d", "e", "f", "i", "n", "e", "d">>

(* --------------------------- property access --------------------------- *)

\* A path segment is [k |-> key] (a string) or [i |-> index] (a number); a
\* path is [def |-> FALSE, ...] when absent (undefined).
IsIndex(seg) == "i" \in DOMAIN seg

Key(k) == [k |-> k]

Idx(i) == [i |-> i]

Path(segs) == [def |-> TRUE, segs |-> segs]

NoPath == [def |-> FALSE, segs |-> <<>>]

\* The property name a segment denotes on an object.
PropName(seg) == IF IsIndex(seg) THEN ToString(seg.i) ELSE seg.k

\* cur[seg] for a value other than undefined and null.  (Inherited
\* properties such as toString, and string keys that spell an array index,
\* are outside the modelled keys.)
Get(cur, seg) ==
  CASE cur.t = "obj" ->
         IF PropName(seg) \in DOMAIN cur.f THEN cur.f[PropName(seg)] ELSE Undefined
    [] cur.t = "arr" ->
         IF IsIndex(seg)
         THEN IF seg.i >= 0 /\ seg.i < Len(cur.e) THEN cur.e[seg.i + 1] ELSE Undefined
         ELSE IF seg.k = "length" THEN Num(Len(cur.e)) ELSE Undefined
    [] cur.t = "str" ->
         IF IsIndex(seg)
         THEN IF seg.i >= 0 /\ seg.i < Len(cur.s) THEN Str(<<cur.s[seg.i + 1]>>) ELSE Undefined
         ELSE IF seg.k = "length" THEN Num(Len(cur.s)) ELSE Undefined
    [] OTHER -> Undefined

\* Reading a property of undefined or null throws a TypeError.
Throws(cur) == cur.t \in {"undef", "null"}

Ok(v) == [ok |-> TRUE, v |-> v]

Thrown == [ok |-> FALSE, v |-> Undefined]

\* current = current[path[i]] along segs, from cur: the value reached, or
\* Thrown when a property of undefined or null is read on the way.
RECURSIVE Resolve(_, _)
Resolve(cur, segs) ==
  IF segs = <<>> THEN Ok(cur)
  ELSE IF Throws(cur) THEN Thrown
  ELSE Resolve(Get(cur, Head(segs)), Tail(segs))

\* JSON.parse(JSON.stringify(json)): a rebuilt copy.  A non-finite number
\* serializes as null, an undefined array element as null, and an undefined
\* property is left out.
RECURSIVE Clone(_)
Clone(v) ==
  CASE v.t = "obj" ->
         Obj([k \in {j \in DOMAIN v.f : v.f[j].t # "undef"} |-> Clone(v.f[k])])
    [] v.t = "arr" -> Arr([i \in 1..Len(v.e) |-> Clone(v.e[i])])
    [] v.t = "num" -> IF v.inf = 0 THEN v ELSE Null
    [] v.t = "undef" -> Null
    [] OTHER -> v

\* Mutant of Assigned: the containers on the path are rebuilt from the path
\* alone, losing the siblings.
RECURSIVE Assigned_PathOnly(_, _, _)
Assigned_PathOnly(v, segs, target) ==
  IF segs = <<>> THEN target
  ELSE CASE v.t = "obj" ->
              Obj([k \in {PropName(Head(segs))} |->
                     Assigned_PathOnly(v.f[k], Tail(segs), target)])
         [] v.t = "arr" ->
              Arr(<<Assigned_PathOnly(v.e[Head(segs).i + 1], Tail(segs), target)>>)
         [] OTHER -> v

\* The document after the assignments current[lastKey][key] = ... have
\* turned the object at segs into target (objects are shared by reference
\* in the code, so the change shows in the clone).
RECURSIVE Assigned(_, _, _)
Assigned(v, segs, target) ==
  IF segs = <<>> THEN target
  ELSE CASE v.t = "obj" ->
              Obj([v.f EXCEPT ![PropName(Head(segs))] =
                     Assigned(v.f[PropName(Head(segs))], Tail(segs), target)])
         [] v.t = "arr" ->
              Arr([v.e EXCEPT ![Head(segs).i + 1] =
                     Assigned(v.e[Head(segs).i + 1], Tail(segs), target)])
         [] OTHER -> v

(* --------------------------- jsonPathToString -------------------------- *)

\* A string value as a string of the output.
RECURSIVE Chars(_)
Chars(s) == IF s = <<>> THEN "" ELSE Head(s) \o Chars(Tail(s))

\* segments.join(sep)
RECURSIVE Join(_, _)
Join(segments, sep) ==
  IF segments = <<>> THEN ""
  ELSE IF Len(segments) = 1 THEN segments[1]
  ELSE segments[1] \o sep \o Join(Tail(segments), sep)

\* Mutant of jsonPathToString: every segment is quoted, the numbers too.
jsonPathToString_QuoteAll(path) ==
  IF ~path.def \/ Len(path.segs) = 0 THEN "$"
  ELSE LET segments ==
             [i \in 1..Len(path.segs) |->
                "\"" \o (IF IsIndex(path.segs[i])
                         THEN Chars(String(Num(path.segs[i].i)))
                         ELSE path.segs[i].k) \o "\""]
       IN "$[" \o Join(segments, "][") \o "]"

jsonPathToString(path) ==
  IF ~path.def \/ Len(path.segs) = 0 THEN "$"
  ELSE LET segments ==
             [i \in 1..Len(path.segs) |->
                IF IsIndex(path.segs[i])
                THEN Chars(String(Num(path.segs[i].i)))
                ELSE "\"" \o path.segs[i].k \o "\""]
       IN "$[" \o Join(segments, "][") \o "]"

(* --------------------------- updateJsonAtPath -------------------------- *)

\* Mutant of Coerce: the edited string is stored as it is, whatever the
\* field's type was.
Coerce_AlwaysString(originalValue, value) == Str(value)

\* Mutant of Coerce: a string that cannot be coerced is dropped and the
\* field keeps its value.
Coerce_KeepOnFailure(originalValue, value) ==
  IF originalValue.t # "undef"
  THEN CASE originalValue.t = "num" ->
              IF isNaN(Number(value)) THEN originalValue ELSE NumValue(Number(value))
         [] originalValue.t = "bool" ->
              IF value = sTrue \/ value = sFalse THEN Bool(value = sTrue) ELSE originalValue
         [] originalValue.t = "null" ->
              IF value = sNull THEN Null ELSE originalValue
         [] OTHER -> Str(value)
  ELSE Str(value)

\* The value stored for one edited field, from the value the field had.
Coerce(originalValue, value) ==
  IF originalValue.t # "undef"
  THEN CASE originalValue.t = "num" ->
              IF isNaN(Number(value)) THEN Str(value) ELSE NumValue(Number(value))
         [] originalValue.t = "bool" ->
              IF value = sTrue \/ value = sFalse THEN Bool(value = sTrue) ELSE Str(value)
         [] originalValue.t = "null" ->
              IF value = sNull THEN Null ELSE Str(value)
         [] OTHER -> Str(value)
  ELSE Str(value)

\* Object.entries(newValues).forEach(...) on the target object.
UpdatedTarget(target, newValues) ==
  Obj([key \in DOMAIN target.f \cup DOMAIN newValues |->
         IF key \in DOMAIN newValues
         THEN Coerce(Get(target, Key(key)), newValues[key])
         ELSE target.f[key]])

\* newValues, a Record<string, string>, as a JSON value.
AsJson(newValues) == Obj([key \in DOMAIN newValues |-> Str(newValues[key])])

\* Mutant of updateJsonAtPath: the root is patched like any other object.
updateJsonAtPath_RootMerge(json, path, newValues) ==
  LET cloned == Clone(json)
      target == Resolve(cloned, path.segs)
  IN IF ~target.ok THEN Thrown
     ELSE IF target.v.t = "obj"
          THEN Ok(Assigned(cloned, path.segs, UpdatedTarget(target.v, newValues)))
          ELSE Ok(cloned)

updateJsonAtPath(json, path, newValues) ==
  IF ~path.def \/ Len(path.segs) = 0
  THEN Ok(AsJson(newValues))
  ELSE LET cloned == Clone(json)
           target == Resolve(cloned, path.segs)
       IN IF ~target.ok THEN Thrown
          ELSE IF target.v.t = "obj"
               THEN Ok(Assigned(cloned, path.segs, UpdatedTarget(target.v, newValues)))
               ELSE Ok(cloned)

(* --------------------------- normalizeNodeData ------------------------- *)

\* A row of NodeData["text"]: key is [def |-> FALSE, ...] when absent.
RowKey(k) == [def |-> TRUE, k |-> k]

NoKey == [def |-> FALSE, k |-> ""]

Row(key, value, type) == [key |-> key, value |-> value, type |-> type]

\* row.key as a condition: undefined and "" are falsy.
Truthy(key) == key.def /\ key.k # ""

\* nodeRows.forEach(row => ...) from the object obj built so far.
RECURSIVE ForEachRow(_, _)
ForEachRow(nodeRows, obj) ==
  IF nodeRows = <<>> THEN obj
  ELSE LET row == Head(nodeRows) IN
       ForEachRow(Tail(nodeRows),
                  IF row.type # "array" /\ row.type # "object" /\ Truthy(row.key)
                  THEN [k \in DOMAIN obj \cup {row.key.k} |->
                          IF k = row.key.k THEN row.value ELSE obj[k]]
                  ELSE obj)

normalizeNodeData(nodeRows) ==
  IF Len(nodeRows) = 0 THEN EmptyMap
  ELSE IF Len(nodeRows) = 1 /\ ~Truthy(nodeRows[1].key)
       THEN [k \in {"value"} |-> nodeRows[1].value]
       ELSE ForEachRow(nodeRows, EmptyMap)

\* stringValues[key] = String(value ?? "") for every entry of nodeObj.
StringValues(nodeObj) ==
  [key \in DOMAIN nodeObj |->
     IF nodeObj[key].t \in {"null", "undef"} THEN <<>> ELSE String(nodeObj[key])]

(* ----------------------- the document accessor ------------------------- *)

\* The document text, by what JSON.parse makes of it: a text that parses to
\* json, or a malformed text.
Text(json) == [valid |-> TRUE, json |-> json]

Malformed == [valid |-> FALSE, json |-> Undefined]

\* JSON.parse(text): the value, or a SyntaxError.
JsonParse(text) == IF text.valid THEN Ok(text.json) ELSE Thrown

\* JSON.stringify(value, null, 2): the text, which parses back to the value
\* with every non-finite number turned into null.
JsonStringify(value) == Text(Clone(value))

(* ------------------------------- bounds -------------------------------- *)

\* Longest path handed to updateJsonAtPath.
MaxPathLen == 2

\* Most fields in one edits mapping handed to updateJsonAtPath.
MaxEditKeys == 1

Segs == {Key("a"), Key("b"), Idx(0)}

PathSeqs == UNION {[1..m -> Segs] : m \in 0..MaxPathLen}

PathPool == {NoPath} \cup {Path(p) : p \in PathSeqs}

s2 == <<"2">>

sT == <<"t">>

sS == <<"s">>

InputStrings == {s2, sTrue, sFalse, sNull, sT, <<>>, <<" ", "-", "3">>, sInfinity}

EditKeys == {"x", "y", "z", "w", "c"}

\* The target of the specification's type-fidelity example.
ExampleTarget == Obj([x |-> Num(1), y |-> Bool(TRUE), z |-> Null, w |-> Str(sS)])

ExampleDoc == Obj([a |-> ExampleTarget])

ExampleEdits == [x |-> s2, y |-> sFalse, z |-> sNull, w |-> sT]

DocSibling ==
  Obj([a |-> Obj([x |-> Num(1), w |-> Str(sS), c |-> Arr(<<Num(1)>>)]),
       b |-> Arr(<<ExampleTarget, Num(7)>>)])

DocNested == Obj([a |-> Obj([a |-> ExampleTarget, b |-> Str(sS)]), b |-> Null])

DocArray == Arr(<<ExampleTarget, Arr(<<Bool(FALSE)>>)>>)

DocScalar == Num(1)

DocEmpty == Obj(EmptyMap)

DocNull == Null

JsonPool == {ExampleDoc, DocSibling, DocNested, DocArray, DocScalar, DocEmpty, DocNull}

EditsPool ==
  {ExampleEdits} \cup
  UNION {[ks -> InputStrings] :
           ks \in {s \in SUBSET EditKeys : Cardinality(s) <= MaxEditKeys}}

\* Documents and typed values of the edit session.
SessionDoc == Obj([a |-> Obj([b |-> Obj([x |-> Num(1), z |-> Null]), w |-> Str(sS)])])

SessionFlat == Obj([a |-> Num(1)])

SessionTexts == {Text(SessionDoc), Text(SessionFlat), Text(DocEmpty), Malformed}

SessionInputs == {s2, sT}

(* ---------------------------- the graph layer -------------------------- *)

KeyOrder == <<"a", "b", "c", "w", "x", "y", "z", "value">>

TypeOf(v) ==
  CASE v.t = "str" -> "string" [] v.t = "num" -> "number"
    [] v.t = "bool" -> "boolean" [] v.t = "null" -> "null"
    [] v.t = "arr" -> "array" [] v.t = "obj" -> "object"
    [] OTHER -> "undefined"

IsScalar(v) == v.t \in {"str", "num", "bool", "null"}

\* The rows of a node: one per property of an object, a scalar property
\* with its value; one keyless row for a scalar node.
RowsOf(v) ==
  IF v.t = "obj"
  THEN LET keys == SelectSeq(KeyOrder, LAMBDA k : k \in DOMAIN v.f) IN
       [i \in 1..Len(keys) |->
          Row(RowKey(keys[i]),
              IF IsScalar(v.f[keys[i]]) THEN v.f[keys[i]] ELSE Undefined,
              TypeOf(v.f[keys[i]]))]
  ELSE IF IsScalar(v) THEN <<Row(NoKey, v, TypeOf(v))>>
  ELSE <<>>

Node(text, path) == [def |-> TRUE, text |-> text, path |-> path]

NoNode == [def |-> FALSE, text |-> <<>>, path |-> NoPath]

\* The nodes the graph shows for a document: its root, every object and
\* array, and the scalar elements of arrays.
NodesOf(json) ==
  {Node(RowsOf(Resolve(json, p).v), Path(p)) :
     p \in {q \in PathSeqs :
              /\ Resolve(json, q).ok
              /\ LET v == Resolve(json, q).v IN
                 \/ v.t \in {"obj", "arr"}
                 \/ /\ IsScalar(v)
                    /\ \/ q = <<>>
                       \/ Resolve(json, SubSeq(q, 1, Len(q) - 1)).v.t = "arr"}}

(* ------------------------------- state --------------------------------- *)

VARIABLES
  opened,          \* the modal's opened prop
  nodeData,        \* useGraph's selectedNode
  contents,        \* the document text (getJson / setContents)
  isEditing,       \* React state of NodeModal
  editedValues,
  originalValues,
  seed,            \* history: where the edited values come from
  lastOp,          \* the handler or event of the last step
  calls,           \* the setContents calls the last step made
  pre,             \* the session as it was before the last step
  call,            \* an invocation of a pure helper on its own
  ret,             \* what that invocation returned
  pc

vars == <<opened, nodeData, contents, isEditing, editedValues, originalValues,
          seed, lastOp, calls, pre, call, ret, pc>>

Session ==
  [opened |-> opened, nodeData |-> nodeData, contents |-> contents,
   isEditing |-> isEditing, editedValues |-> editedValues,
   originalValues |-> originalValues, seed |-> seed]

\* The history of the edited values: the node whose rows the edit-init
\* effect last seeded them from in the current edit session, and the keys
\* handleValueChange has written since. NoSeed outside an edit session.
NoSeed == [node |-> NoNode, touched |-> {}]

NoCall == [json |-> Undefined, path |-> NoPath, newValues |-> EmptyMap]

SessionInit ==
  /\ opened = FALSE
  /\ nodeData = NoNode
  /\ isEditing = FALSE
  /\ editedValues = EmptyMap
  /\ originalValues = EmptyMap
  /\ seed = NoSeed
  /\ lastOp = "mount"
  /\ calls = <<>>
  /\ pre = Session

Init ==
  /\ contents \in SessionTexts \ {Malformed}
  /\ SessionInit
  /\ call = NoCall
  /\ ret = Thrown
  /\ pc = "idle"

\* What a step records besides its own effect.
Record(op, made) ==
  /\ lastOp' = op
  /\ calls' = made
  /\ pre' = Session
  /\ UNCHANGED <<call, ret, pc>>

\* Mutant of EditInitEffect: the dependencies are [isEditing] alone, so a
\* selection made while editing does not seed again.
EditInitEffect_EditingOnly(editing, node, edited, original) ==
  IF editing # isEditing /\ editing /\ node.def
  THEN /\ editedValues' = StringValues(normalizeNodeData(node.text))
       /\ originalValues' = StringValues(normalizeNodeData(node.text))
       /\ seed' = [node |-> node, touched |-> {}]
  ELSE /\ editedValues' = edited
       /\ originalValues' = original
       /\ seed' = seed

\* The effect with dependencies [isEditing, nodeData]: it runs when one of
\* them changed, and seeds both value maps when editing a node.
EditInitEffect(editing, node, edited, original) ==
  IF (editing # isEditing \/ node # nodeData) /\ editing /\ node.def
  THEN /\ editedValues' = StringValues(normalizeNodeData(node.text))
       /\ originalValues' = StringValues(normalizeNodeData(node.text))
       /\ seed' = [node |-> node, touched |-> {}]
  ELSE /\ editedValues' = edited
       /\ originalValues' = original
       /\ seed' = seed

handleEditClick ==
  /\ opened /\ ~isEditing
  /\ isEditing' = TRUE
  /\ EditInitEffect(TRUE, nodeData, editedValues, originalValues)
  /\ UNCHANGED <<opened, nodeData, contents>>
  /\ Record("handleEditClick", <<>>)

\* The inputs shown while editing: one per entry of the node's object.
Entries == IF nodeData.def THEN DOMAIN normalizeNodeData(nodeData.text) ELSE {}

\* The updater handed to setEditedValues: prev => ({ ...prev, [key]: value }).
WithValue(prev, key, value) ==
  [k \in DOMAIN prev \cup {key} |-> IF k = key THEN value ELSE prev[k]]

\* Mutant of handleValueChange: the cancel snapshot follows the typed value.
handleValueChange_AlsoSnapshot(key, value) ==
  /\ opened /\ isEditing
  /\ editedValues' = WithValue(editedValues, key, value)
  /\ originalValues' = WithValue(originalValues, key, value)
  /\ UNCHANGED <<opened, nodeData, contents, isEditing>>
  /\ seed' = [seed EXCEPT !.touched = @ \cup {key}]
  /\ Record("handleValueChange", <<>>)

handleValueChange(key, value) ==
  /\ opened /\ isEditing
  /\ editedValues' = WithValue(editedValues, key, value)
  /\ UNCHANGED <<opened, nodeData, contents, isEditing, originalValues>>
  /\ seed' = [seed EXCEPT !.touched = @ \cup {key}]
  /\ Record("handleValueChange", <<>>)

\* Mutant of handleSave: the patch is given the snapshot instead of the
\* live edited values.
handleSave_Snapshot ==
  /\ opened /\ isEditing
  /\ IF ~nodeData.def
     THEN /\ UNCHANGED <<contents, isEditing>>
          /\ calls' = <<>>
     ELSE LET jsonObj == JsonParse(contents)
              updatedJson == updateJsonAtPath(jsonObj.v, nodeData.path, originalValues)
          IN IF jsonObj.ok /\ updatedJson.ok
             THEN /\ contents' = JsonStringify(updatedJson.v)
                  /\ calls' = <<[contents |-> JsonStringify(updatedJson.v),
                                 hasChanges |-> TRUE]>>
                  /\ isEditing' = FALSE
             ELSE /\ UNCHANGED <<contents, isEditing>>
                  /\ calls' = <<>>
  /\ UNCHANGED <<opened, nodeData, editedValues, originalValues>>
  /\ seed' = IF isEditing' THEN seed ELSE NoSeed
  /\ lastOp' = "handleSave"
  /\ pre' = Session
  /\ UNCHANGED <<call, ret, pc>>

\* Mutant of handleSave: edit mode is left after the try block, whether or
\* not it threw.
handleSave_AlwaysExit ==
  /\ opened /\ isEditing
  /\ IF ~nodeData.def
     THEN /\ UNCHANGED <<contents, isEditing>>
          /\ calls' = <<>>
     ELSE LET jsonObj == JsonParse(contents)
              updatedJson == updateJsonAtPath(jsonObj.v, nodeData.path, editedValues)
          IN /\ isEditing' = FALSE
             /\ IF jsonObj.ok /\ updatedJson.ok
                THEN /\ contents' = JsonStringify(updatedJson.v)
                     /\ calls' = <<[contents |-> JsonStringify(updatedJson.v),
                                    hasChanges |-> TRUE]>>
                ELSE /\ UNCHANGED contents
                     /\ calls' = <<>>
  /\ UNCHANGED <<opened, nodeData, editedValues, originalValues>>
  /\ seed' = IF isEditing' THEN seed ELSE NoSeed
  /\ lastOp' = "handleSave"
  /\ pre' = Session
  /\ UNCHANGED <<call, ret, pc>>

\* Mutant of handleSave: the document is written without the dirty flag.
handleSave_NotDirty ==
  /\ opened /\ isEditing
  /\ IF ~nodeData.def
     THEN /\ UNCHANGED <<contents, isEditing>>
          /\ calls' = <<>>
     ELSE LET jsonObj == JsonParse(contents)
              updatedJson == updateJsonAtPath(jsonObj.v, nodeData.path, editedValues)
          IN IF jsonObj.ok /\ updatedJson.ok
             THEN /\ contents' = JsonStringify(updatedJson.v)
                  /\ calls' = <<[contents |-> JsonStringify(updatedJson.v),
                                 hasChanges |-> FALSE]>>
                  /\ isEditing' = FALSE
             ELSE /\ UNCHANGED <<contents, isEditing>>
                  /\ calls' = <<>>
  /\ UNCHANGED <<opened, nodeData, editedValues, originalValues>>
  /\ seed' = IF isEditing' THEN seed ELSE NoSeed
  /\ lastOp' = "handleSave"
  /\ pre' = Session
  /\ UNCHANGED <<call, ret, pc>>

handleSave ==
  /\ opened /\ isEditing
  /\ IF ~nodeData.def
     THEN /\ UNCHANGED <<contents, isEditing>>
          /\ calls' = <<>>
     ELSE LET jsonObj == JsonParse(contents)
              updatedJson == updateJsonAtPath(jsonObj.v, nodeData.path, editedValues)
          IN IF jsonObj.ok /\ updatedJson.ok
             THEN /\ contents' = JsonStringify(updatedJson.v)
                  /\ calls' = <<[contents |-> JsonStringify(updatedJson.v),
                                 hasChanges |-> TRUE]>>
                  /\ isEditing' = FALSE
             ELSE /\ UNCHANGED <<contents, isEditing>>
                  /\ calls' = <<>>
  /\ UNCHANGED <<opened, nodeData, editedValues, originalValues>>
  /\ seed' = IF isEditing' THEN seed ELSE NoSeed
  /\ lastOp' = "handleSave"
  /\ pre' = Session
  /\ UNCHANGED <<call, ret, pc>>

\* Mutant of handleCancel: edit mode is left without restoring the values.
handleCancel_NoRestore ==
  /\ opened /\ isEditing
  /\ isEditing' = FALSE
  /\ UNCHANGED <<opened, nodeData, contents, editedValues, originalValues>>
  /\ seed' = NoSeed
  /\ Record("handleCancel", <<>>)

handleCancel ==
  /\ opened /\ isEditing
  /\ editedValues' = originalValues
  /\ isEditing' = FALSE
  /\ UNCHANGED <<opened, nodeData, contents, originalValues>>
  /\ seed' = NoSeed
  /\ Record("handleCancel", <<>>)

\* The graph selects a node of the document it shows.
SelectNode(node) ==
  /\ node # nodeData
  /\ nodeData' = node
  /\ EditInitEffect(isEditing, node, editedValues, originalValues)
  /\ UNCHANGED <<opened, contents, isEditing>>
  /\ Record("select", <<>>)

OpenModal ==
  /\ ~opened
  /\ opened' = TRUE
  /\ UNCHANGED <<nodeData, contents, isEditing, editedValues, originalValues,
                 seed>>
  /\ Record("open", <<>>)

\* Mutant of CloseModal: edit mode is left but the value maps are kept.
CloseModal_KeepValues ==
  /\ opened
  /\ opened' = FALSE
  /\ isEditing' = FALSE
  /\ UNCHANGED <<nodeData, contents, editedValues, originalValues>>
  /\ seed' = NoSeed
  /\ Record("close", <<>>)

\* opened becomes false: the effect with dependency [opened] resets.
CloseModal ==
  /\ opened
  /\ opened' = FALSE
  /\ isEditing' = FALSE
  /\ editedValues' = EmptyMap
  /\ originalValues' = EmptyMap
  /\ UNCHANGED <<nodeData, contents>>
  /\ seed' = NoSeed
  /\ Record("close", <<>>)

\* The document is replaced from elsewhere (the text editor).
ExternalSetContents(text) ==
  /\ text # contents
  /\ contents' = text
  /\ UNCHANGED <<opened, nodeData, isEditing, editedValues, originalValues,
                 seed>>
  /\ Record("external", <<>>)

Next ==
  \/ handleEditClick
  \/ \E key \in Entries, value \in SessionInputs : handleValueChange(key, value)
  \/ handleSave
  \/ handleCancel
  \/ \E node \in (IF contents.valid THEN NodesOf(contents.json) ELSE {}) : SelectNode(node)
  \/ OpenModal
  \/ CloseModal
  \/ \E text \in SessionTexts : ExternalSetContents(text)

Spec == Init /\ [][Next]_vars

(* ------------------- updateJsonAtPath on its own ----------------------- *)

InitPatch ==
  /\ contents = Text(DocEmpty)
  /\ SessionInit
  /\ call \in [json : JsonPool, path : PathPool, newValues : EditsPool]
  /\ ret = Thrown
  /\ pc = "call"

Invoke ==
  /\ pc = "call"
  /\ ret' = updateJsonAtPath(call.json, call.path, call.newValues)
  /\ pc' = "returned"
  /\ UNCHANGED <<opened, nodeData, contents, isEditing, editedValues, seed,
                 originalValues, lastOp, calls, pre, call>>

NextPatch == Invoke

SpecPatch == InitPatch /\ [][NextPatch]_vars

(* ------------------- jsonPathToString on its own ----------------------- *)

\* Longest path handed to jsonPathToString.
MaxFormatLen == 3

FormatSegs == {Key("customer"), Key("id"), Key("a"), Idx(0), Idx(12)}

FormatPaths ==
  {NoPath} \cup {Path(p) : p \in UNION {[1..m -> FormatSegs] : m \in 0..MaxFormatLen}}

InitFormat ==
  /\ contents = Text(DocEmpty)
  /\ SessionInit
  /\ call \in [json : {Undefined}, path : FormatPaths, newValues : {EmptyMap}]
  /\ ret = ""
  /\ pc = "format"

Format ==
  /\ pc = "format"
  /\ ret' = jsonPathToString(call.path)
  /\ pc' = "formatted"
  /\ UNCHANGED <<opened, nodeData, contents, isEditing, editedValues, seed,
                 originalValues, lastOp, calls, pre, call>>

NextFormat == Format

SpecFormat == InitFormat /\ [][NextFormat]_vars

(* ------------------- normalizeNodeData on its own ---------------------- *)

\* Most rows in one node handed to normalizeNodeData.
MaxRows == 2

RowKeys == {NoKey, RowKey(""), RowKey("name"), RowKey("id")}

RowPool ==
  {Row(key, tv[2], tv[1]) :
     key \in RowKeys,
     tv \in {<<"string", Str(sS)>>, <<"number", Num(1)>>, <<"null", Null>>,
             <<"array", Undefined>>, <<"object", Undefined>>}}

RowsPool == UNION {[1..m -> RowPool] : m \in 0..MaxRows}

InitNormalize ==
  /\ contents = Text(DocEmpty)
  /\ SessionInit
  /\ call \in [rows : RowsPool]
  /\ ret = EmptyMap
  /\ pc = "normalize"

Normalize ==
  /\ pc = "normalize"
  /\ ret' = normalizeNodeData(call.rows)
  /\ pc' = "normalized"
  /\ UNCHANGED <<opened, nodeData, contents, isEditing, editedValues, seed,
                 originalValues, lastOp, calls, pre, call>>

NextNormalize == Normalize

SpecNormalize == InitNormalize /\ [][NextNormalize]_vars

(* =============================== claims ================================ *)

\* The call is a patch at a non-empty path whose target, in the document
\* handed in, is an existing non-array object.
ObjectTarget ==
  /\ call.path.def /\ Len(call.path.segs) > 0
  /\ Resolve(call.json, call.path.segs).ok
  /\ Resolve(call.json, call.path.segs).v.t = "obj"

OldTarget == Resolve(call.json, call.path.segs).v

NewTarget == Resolve(ret.v, call.path.segs).v

OldField(k) == IF k \in DOMAIN OldTarget.f THEN OldTarget.f[k] ELSE Undefined

\* C1: patching an existing non-array object stores every edited field
\* coerced by the type the field had before: an existing number becomes the
\* number the new string parses to, an existing boolean becomes true/false
\* for exactly "true"/"false", an existing null stays null for exactly
\* "null", an existing string or an absent field becomes the raw string; the
\* specification's example {x:1,y:true,z:null,w:"s"} patched with
\* {x:"2",y:"false",z:"null",w:"t"} yields {x:2,y:false,z:null,w:"t"}.
TypeFidelity ==
  pc = "returned" /\ ObjectTarget =>
    /\ ret.ok
    /\ NewTarget.t = "obj"
    /\ \A k \in DOMAIN call.newValues :
         LET s == call.newValues[k]
             o == OldField(k)
         IN /\ k \in DOMAIN NewTarget.f
            /\ o.t = "num" /\ ~isNaN(Number(s)) =>
                 NewTarget.f[k].t = "num" /\ NewTarget.f[k] = NumValue(Number(s))
            /\ o.t = "bool" /\ s = sTrue => NewTarget.f[k] = Bool(TRUE)
            /\ o.t = "bool" /\ s = sFalse => NewTarget.f[k] = Bool(FALSE)
            /\ o.t = "null" /\ s = sNull => NewTarget.f[k] = Null
            /\ o.t \in {"str", "undef"} => NewTarget.f[k] = Str(s)
    /\ (call.json = ExampleDoc /\ call.path = Path(<<Key("a")>>)
          /\ call.newValues = ExampleEdits) =>
         ret.v = Obj([a |-> Obj([x |-> Num(2), y |-> Bool(FALSE), z |-> Null,
                                 w |-> Str(sT)])])

TypeFidelityWitness ==
  /\ pc = "returned"
  /\ call = [json |-> ExampleDoc, path |-> Path(<<Key("a")>>), newValues |-> ExampleEdits]
  /\ ret.ok
  /\ ret.v.f["a"].f["x"] = Num(2)
  /\ ret.v.f["a"].f["y"] = Bool(FALSE)

\* Deep equality of a and b everywhere off the path segs: same kind of
\* container at every step of the path, same keys or length, and every
\* sibling of the path equal.
RECURSIVE SameOutside(_, _, _)
SameOutside(a, b, segs) ==
  IF segs = <<>> THEN TRUE
  ELSE /\ a.t = b.t
       /\ CASE a.t = "obj" ->
                 /\ DOMAIN a.f = DOMAIN b.f
                 /\ \A k \in DOMAIN a.f :
                      IF k = PropName(Head(segs))
                      THEN SameOutside(a.f[k], b.f[k], Tail(segs))
                      ELSE a.f[k] = b.f[k]
            [] a.t = "arr" ->
                 /\ Len(a.e) = Len(b.e)
                 /\ \A i \in 1..Len(a.e) :
                      IF IsIndex(Head(segs)) /\ i = Head(segs).i + 1
                      THEN SameOutside(a.e[i], b.e[i], Tail(segs))
                      ELSE a.e[i] = b.e[i]
            [] OTHER -> a = b

\* C2: a patch at a non-empty path leaves everything outside the targeted
\* node deep-equal to the input: the siblings of the target and of each of
\* its ancestors, and the key sets and lengths of the ancestors.
StructuralIsolation ==
  pc = "returned" /\ call.path.def /\ Len(call.path.segs) > 0 /\ ret.ok =>
    SameOutside(call.json, ret.v, call.path.segs)

StructuralIsolationWitness ==
  /\ pc = "returned"
  /\ call = [json |-> DocSibling, path |-> Path(<<Key("a")>>),
             newValues |-> [x |-> s2]]
  /\ ret.ok
  /\ ret.v # DocSibling
  /\ ret.v.f["b"] = DocSibling.f["b"]

\* C7: when the new string cannot be coerced to the field's type (no number
\* for an existing number, not exactly "true"/"false" for a boolean, not
\* exactly "null" for a null) the raw string is stored in the field and the
\* patch returns; no edited field is dropped.
CoercionFallback ==
  pc = "returned" /\ ObjectTarget =>
    /\ ret.ok
    /\ \A k \in DOMAIN call.newValues :
         LET s == call.newValues[k]
             o == OldField(k)
         IN /\ k \in DOMAIN NewTarget.f
            /\ o.t = "num" /\ isNaN(Number(s)) => NewTarget.f[k] = Str(s)
            /\ o.t = "bool" /\ s \notin {sTrue, sFalse} => NewTarget.f[k] = Str(s)
            /\ o.t = "null" /\ s # sNull => NewTarget.f[k] = Str(s)

CoercionFallbackWitness ==
  /\ pc = "returned"
  /\ call = [json |-> ExampleDoc, path |-> Path(<<Key("a")>>), newValues |-> [x |-> sT]]
  /\ ret.ok
  /\ ret.v.f["a"].f["x"] = Str(sT)
  /\ ret.v.f["a"].f["y"] = Bool(TRUE)

\* C8: with an absent or empty path the result is exactly the edits
\* mapping, every field the provided string, whatever the document was.
RootReplace ==
  pc = "returned" /\ (~call.path.def \/ call.path.segs = <<>>) =>
    /\ ret.ok
    /\ ret.v.t = "obj"
    /\ DOMAIN ret.v.f = DOMAIN call.newValues
    /\ \A k \in DOMAIN call.newValues :
         ret.v.f[k].t = "str" /\ ret.v.f[k].s = call.newValues[k]

RootReplaceWitness ==
  /\ pc = "returned"
  /\ call = [json |-> ExampleDoc, path |-> Path(<<>>), newValues |-> [x |-> s2]]
  /\ ret = Ok(Obj([x |-> Str(s2)]))

\* The last step was a Save with a node selected, on a document text that
\* parsed to PreJson.
SaveWithNode == lastOp = "handleSave" /\ pre.isEditing /\ pre.nodeData.def

PreJson == pre.contents.json

PreSegs == pre.nodeData.path.segs

Committed == SaveWithNode /\ calls # <<>>

\* The structural shape of a value: its nesting, the key set of every
\* object and the length of every array, scalars left out.
RECURSIVE Shape(_)
Shape(v) ==
  CASE v.t = "obj" -> Obj([k \in DOMAIN v.f |-> Shape(v.f[k])])
    [] v.t = "arr" -> Arr([i \in 1..Len(v.e) |-> Shape(v.e[i])])
    [] OTHER -> [t |-> "scalar"]

\* C3: a successful commit, for any selected node (the root included),
\* leaves the document's structural shape as it was: key sets, array
\* lengths and nesting are unchanged, the composite children of the target
\* included; only scalar field values may differ.
ShapePreserved ==
  Committed => Shape(contents.json) = Shape(PreJson)

CancelDiscards ==
  /\ lastOp \in {"handleEditClick", "handleValueChange"} =>
       contents = pre.contents /\ calls = <<>>
  /\ lastOp = "handleCancel" =>
       /\ contents = pre.contents /\ calls = <<>>
       /\ ~isEditing
       /\ editedValues = pre.originalValues
       /\ originalValues = pre.originalValues

CancelDiscardsWitness ==
  /\ lastOp = "handleCancel"
  /\ pre.isEditing /\ pre.nodeData.def
  /\ pre.editedValues # pre.originalValues
  /\ editedValues = originalValues
  /\ ~isEditing

\* C6: a Save in Editing on a document text that is not valid JSON changes
\* nothing: no setContents call, the text as it was, the session still
\* Editing, the live edited values kept.
MalformedCommit ==
  (lastOp = "handleSave" /\ ~pre.contents.valid) =>
    /\ contents = pre.contents /\ calls = <<>>
    /\ isEditing
    /\ editedValues = pre.editedValues
    /\ originalValues = pre.originalValues

MalformedCommitWitness ==
  /\ SaveWithNode
  /\ ~pre.contents.valid
  /\ pre.editedValues # pre.originalValues
  /\ isEditing
  /\ editedValues = pre.editedValues

\* A commit that failed: no document replacement, still Editing, the live
\* edited values kept.
CommitFailed ==
  /\ calls = <<>> /\ contents = pre.contents
  /\ isEditing
  /\ editedValues = pre.editedValues

\* Some path segment before the last does not resolve to a container.
IntermediateMissing(json, segs) ==
  \E i \in 1..(Len(segs) - 1) :
    \/ ~Resolve(json, SubSeq(segs, 1, i)).ok
    \/ Resolve(json, SubSeq(segs, 1, i)).v.t \notin {"obj", "arr"}

\* Every segment before the last resolves to a container, the last one to
\* nothing.
TerminalMissing(json, segs) ==
  /\ Len(segs) > 0
  /\ ~IntermediateMissing(json, segs)
  /\ Resolve(json, segs).ok
  /\ Resolve(json, segs).v.t = "undef"

\* C9: a commit whose path has a segment before the last that does not
\* resolve to an existing container fails: no document replacement, the
\* session stays Editing, the live edited values are kept.
MissingIntermediateFails ==
  (SaveWithNode /\ pre.contents.valid /\ IntermediateMissing(PreJson, PreSegs)) =>
    CommitFailed

\* C10: a commit whose last path segment does not resolve in the current
\* document fails: no document replacement, the live edited values kept,
\* the session still Editing.
MissingTerminalFails ==
  (SaveWithNode /\ pre.contents.valid /\ TerminalMissing(PreJson, PreSegs)) =>
    CommitFailed


\* The node the last segment of the call's path resolves to, undefined
\* when there is none.
CallTarget ==
  IF Resolve(call.json, call.path.segs).ok
  THEN Resolve(call.json, call.path.segs).v
  ELSE Undefined

\* C11: a patch at a non-empty path whose intermediate segments resolve to
\* containers and whose last segment resolves to an array, a scalar, null
\* or nothing returns a document deep-equal to the input and raises no
\* error.
NonObjectNoOp ==
  (/\ pc = "returned"
   /\ call.path.def /\ Len(call.path.segs) > 0
   /\ ~IntermediateMissing(call.json, call.path.segs)
   /\ CallTarget.t # "obj") =>
    ret = Ok(call.json)


\* C12: when the selected node changes while the session is Editing, the
\* uncommitted edits are discarded and the session is back in Viewing
\* before the new node's data is shown.
ReselectResets ==
  (lastOp = "select" /\ pre.isEditing) =>
    /\ ~isEditing
    /\ editedValues = originalValues

\* C13: closing the modal, from any session state, leaves the session in
\* Viewing with the live edited values and the cancel snapshot both empty,
\* and the document as it was.
CloseResets ==
  lastOp = "close" =>
    /\ ~opened
    /\ ~isEditing
    /\ editedValues = EmptyMap
    /\ originalValues = EmptyMap
    /\ contents = pre.contents /\ calls = <<>>

CloseResetsWitness ==
  /\ lastOp = "close"
  /\ pre.isEditing
  /\ pre.editedValues # pre.originalValues
  /\ ~isEditing
  /\ editedValues = EmptyMap


\* C14: the document changes only in a Save taken while Editing, through
\* exactly one setContents call carrying hasChanges = true; a Save that
\* fails makes no call, and every other session operation leaves the
\* document as it was.
SingleWriter ==
  /\ lastOp \in {"handleEditClick", "handleValueChange", "handleCancel",
                 "select", "open", "close"} =>
       calls = <<>> /\ contents = pre.contents
  /\ lastOp = "handleSave" =>
       /\ pre.isEditing
       /\ \/ /\ calls = <<>>
             /\ contents = pre.contents
             /\ isEditing
          \/ /\ Len(calls) = 1
             /\ calls[1].hasChanges
             /\ contents = calls[1].contents
             /\ ~isEditing
  /\ contents # pre.contents => lastOp \in {"handleSave", "external"}

SingleWriterWitness ==
  /\ lastOp = "handleSave"
  /\ Len(calls) = 1
  /\ calls[1].hasChanges
  /\ contents # pre.contents


\* One bracket group per segment, in path order, nothing between them.
RECURSIVE BracketGroups(_)
BracketGroups(segs) ==
  IF segs = <<>> THEN ""
  ELSE (IF IsIndex(Head(segs))
        THEN "[" \o ToString(Head(segs).i) \o "]"
        ELSE "[\"" \o Head(segs).k \o "\"]")
       \o BracketGroups(Tail(segs))

\* C15: jsonPathToString gives "$" for an absent or empty path, and
\* otherwise "$" followed by one bracket group per segment in path order,
\* a string segment s as ["s"] and an integer segment i as [i];
\* ["customer", 0, "id"] gives $["customer"][0]["id"].
PathFormat ==
  pc = "formatted" =>
    /\ (~call.path.def \/ call.path.segs = <<>>) => ret = "$"
    /\ (call.path.def /\ call.path.segs # <<>>) =>
         ret = "$" \o BracketGroups(call.path.segs)
    /\ call.path = Path(<<Key("customer"), Idx(0), Key("id")>>) =>
         ret = "$[\"customer\"][0][\"id\"]"

PathFormatWitness ==
  /\ pc = "formatted"
  /\ call.path = Path(<<Key("customer"), Idx(0), Key("id")>>)
  /\ ret = "$[\"customer\"][0][\"id\"]"


\* The rows that are kept: neither array nor object, with a non-empty key.
Kept(row) == row.type \notin {"array", "object"} /\ row.key.def /\ row.key.k # ""

\* The last kept row with key k.
LastKept(rows, k) ==
  CHOOSE i \in 1..Len(rows) :
    /\ Kept(rows[i]) /\ rows[i].key.k = k
    /\ \A j \in (i + 1)..Len(rows) : ~(Kept(rows[j]) /\ rows[j].key.k = k)

\* C16: normalizeNodeData gives the empty mapping for no rows, {"value": v}
\* for exactly one row that has no key, and otherwise key -> value exactly
\* for the rows that are neither array nor object and have a non-empty key,
\* the last row winning among duplicates.
NormalizeContract ==
  pc = "normalized" =>
    LET rows == call.rows IN
    IF rows = <<>> THEN ret = EmptyMap
    ELSE IF Len(rows) = 1 /\ ~rows[1].key.def
         THEN DOMAIN ret = {"value"} /\ ret["value"] = rows[1].value
         ELSE /\ DOMAIN ret = {rows[i].key.k : i \in {j \in 1..Len(rows) : Kept(rows[j])}}
              /\ \A k \in DOMAIN ret : ret[k] = rows[LastKept(rows, k)].value



(* ------------------ the edited-values updater on its own ----------------- *)

MaxFieldKeys == 2

FieldKeys == {"name", "id", "value"}

FieldMaps ==
  UNION {[ks -> SessionInputs \cup {sS}] :
           ks \in {s \in SUBSET FieldKeys : Cardinality(s) <= MaxFieldKeys}}

InitField ==
  /\ contents = Text(DocEmpty)
  /\ SessionInit
  /\ call \in [prev : FieldMaps, key : FieldKeys, value : SessionInputs]
  /\ ret = EmptyMap
  /\ pc = "setField"

SetField ==
  /\ pc = "setField"
  /\ ret' = WithValue(call.prev, call.key, call.value)
  /\ pc' = "fieldSet"
  /\ UNCHANGED <<opened, nodeData, contents, isEditing, editedValues, seed,
                 originalValues, lastOp, calls, pre, call>>

NextField == SetField

SpecField == InitField /\ [][NextField]_vars


\* C17 (session part): in Editing on a node, the keys of the live edited
\* values are those of the cancel snapshot and of normalizeNodeData of the
\* node's rows, and no handleValueChange adds or removes a key.
KeySetInvariant ==
  /\ (isEditing /\ nodeData.def) =>
       /\ DOMAIN editedValues = DOMAIN originalValues
       /\ DOMAIN editedValues = DOMAIN normalizeNodeData(nodeData.text)
  /\ lastOp = "handleValueChange" => DOMAIN editedValues = DOMAIN pre.editedValues

NoEditRoundTrip ==
  ( /\ Committed
    /\ pre.nodeData \in NodesOf(PreJson)
    /\ pre.editedValues = StringValues(normalizeNodeData(pre.nodeData.text)) )
  => contents.json = PreJson

\* The same away from the root and on nodes without a null field.
NoEditRoundTripNonNull ==
  ( /\ Committed
    /\ pre.nodeData \in NodesOf(PreJson)
    /\ pre.editedValues = StringValues(normalizeNodeData(pre.nodeData.text))
    /\ PreSegs # <<>>
    /\ \A i \in 1..Len(pre.nodeData.text) : pre.nodeData.text[i].type # "null" )
  => contents.json = PreJson


\* C20: whenever a Save replaces the document, the edited values given to
\* updateJsonAtPath were seeded from the rows of the node selected at that
\* moment, whose path is the one patched, and differ from the seeded
\* values only at keys handleValueChange wrote after that seeding.
NoStaleWrite ==
  Committed =>
    LET seeded == StringValues(normalizeNodeData(pre.nodeData.text))
    IN /\ pre.seed.node = pre.nodeData
       /\ DOMAIN pre.editedValues = DOMAIN seeded
       /\ \A k \in DOMAIN seeded :
            k \in pre.seed.touched \/ pre.editedValues[k] = seeded[k]
       /\ contents.json =
            updateJsonAtPath(PreJson, pre.seed.node.path, pre.editedValues).v

NoStaleWriteWitness ==
  /\ Committed
  /\ pre.seed.touched # {}
  /\ pre.seed.touched # DOMAIN pre.editedValues

====
